---------------------------- MODULE Spec2Model ----------------------------
(***************************************************************************)
(* A model of WordleSolver.py: the feedback-pattern computation            *)
(* (get_pattern), its process-wide memo (get_pattern_cached), the entropy  *)
(* scorer (calculate_entropy, get_best_guess), the constraint store and    *)
(* filter (update_state, clean_constraints, is_word_valid) and the turn    *)
(* loop of main.                                                           *)
(*                                                                         *)
(* A word is a 5-tuple of one-letter strings, a pattern a 5-tuple over     *)
(* "C" (correct), "P" (present), "A" (absent).                             *)
(***************************************************************************)
EXTENDS Integers, Sequences, FiniteSets, TLC

VARIABLES
    guess,          \* PatternSpec: first argument of get_pattern
    target,         \* PatternSpec: second argument of get_pattern
    pattern,        \* PatternSpec: the tuple get_pattern returned, <<>> before the call
    answers,        \* self.answers
    allowed,        \* self.allowed
    state,          \* self.state: possible, correct, present, absent
    best_guess,     \* what get_best_guess returned last, None before any call
    pattern_cache,  \* WordleSolver._pattern_cache: (guess, target) -> pattern
    pc,             \* position of main / of the caller of the solver
    attempt,        \* main: loop variable of "for attempt in range(5)"
    guesses,        \* history: number of get_best_guess calls made
    updates,        \* history: number of update_state calls made
    consistent,     \* history: the answers every feedback so far was truthful for
    last,           \* history: the feedback list of the last update_state, <<>> before
    calls           \* CacheSpec: per caller, its position in get_pattern_cached

vars == <<guess, target, pattern, answers, allowed, state, best_guess,
          pattern_cache, pc, attempt, guesses, updates, consistent, last,
          calls>>

-----------------------------------------------------------------------------
(* Bounds of the model *)

\* PatternSpec draws its words over the first NumLetters letters (plus NamedWords)
NumLetters == 3
\* the word files hold the first NumWords words of WordList
NumWords == 4
\* SolverSpec makes at most MaxUpdates update_state calls
MaxUpdates == 2
\* CacheSpec runs NumCallers concurrent callers of get_pattern_cached
NumCallers == 2

-----------------------------------------------------------------------------
(* Words *)

\* word length, fixed by the code: pattern = [''] * 5, 'correct': ['?'] * 5
WordLen == 5
\* candidates = self.allowed[:2315]
PoolSize == 2315
\* for attempt in range(5)
MaxAttempts == 5

None == "None"
Unknown == "?"

LetterSeq == <<"A", "B", "C", "D", "E", "F", "G", "H", "I", "J", "K", "L", "M",
               "N", "O", "P", "Q", "R", "S", "T", "U", "V", "W", "X", "Y", "Z">>

Range(s) == {s[i] : i \in DOMAIN s}

CRANE == <<"C", "R", "A", "N", "E">>
SLATE == <<"S", "L", "A", "T", "E">>
PLATE == <<"P", "L", "A", "T", "E">>
SPEED == <<"S", "P", "E", "E", "D">>
ERASE == <<"E", "R", "A", "S", "E">>
EERIE == <<"E", "E", "R", "I", "E">>
LATER == <<"L", "A", "T", "E", "R">>

\* the words the word files are cut from, in file order
WordList == <<EERIE, SLATE, PLATE, LATER, SPEED, CRANE, ERASE>>

NamedWords == Range(WordList)

\* the words PatternSpec compares
PatternWords ==
    [1..WordLen -> {LetterSeq[k] : k \in 1..NumLetters}] \cup NamedWords

Symbols == {"C", "P", "A"}

\* number of positions of word w that hold letter l
Occurrences(w, l) == Cardinality({i \in DOMAIN w : w[i] = l})

-----------------------------------------------------------------------------
(* get_pattern *)

\* A skipped first pass: nothing is marked "C", nothing is counted.
Pass1NoExact(g, t) ==
    [pattern |-> [i \in 1..WordLen |-> ""],
     counts  |-> [l \in Range(g) \cup Range(t) |-> 0]]

\* First pass: mark the exact matches and count them per letter.
Pass1(g, t) ==
    [pattern |-> [i \in 1..WordLen |-> IF g[i] = t[i] THEN "C" ELSE ""],
     counts  |-> [l \in Range(g) \cup Range(t) |->
                     Cardinality({i \in 1..WordLen : g[i] = t[i] /\ t[i] = l})]]

\* A second pass that marks "P" without counting it (counts[g] += 1 left out).
RECURSIVE Pass2NoConsume(_, _, _, _)
Pass2NoConsume(g, t, i, acc) ==
    IF i > WordLen THEN acc.pattern
    ELSE IF acc.pattern[i] = "C" THEN Pass2NoConsume(g, t, i + 1, acc)
    ELSE Pass2NoConsume(g, t, i + 1,
             [acc EXCEPT !.pattern =
                 [acc.pattern EXCEPT ![i] =
                     IF Occurrences(t, g[i]) > acc.counts[g[i]]
                     THEN "P" ELSE "A"]])

\* Second pass, from position i on: a position not marked "C" is "P" while
\* the target holds more of its letter than was counted so far, else "A".
RECURSIVE Pass2(_, _, _, _)
Pass2(g, t, i, acc) ==
    IF i > WordLen THEN acc.pattern
    ELSE IF acc.pattern[i] = "C" THEN Pass2(g, t, i + 1, acc)
    ELSE LET total_in_target == Occurrences(t, g[i]) IN
         IF total_in_target > acc.counts[g[i]]
         THEN Pass2(g, t, i + 1,
                    [pattern |-> [acc.pattern EXCEPT ![i] = "P"],
                     counts  |-> [acc.counts EXCEPT ![g[i]] = @ + 1]])
         ELSE Pass2(g, t, i + 1,
                    [acc EXCEPT !.pattern = [acc.pattern EXCEPT ![i] = "A"]])

get_pattern(g, t) == Pass2(g, t, 1, Pass1(g, t))

-----------------------------------------------------------------------------
(* get_pattern_cached, as one uninterrupted call on cache c *)

\* if key not in _pattern_cache: _pattern_cache[key] = get_pattern(guess, target)
CacheFill(c, g, t) ==
    IF <<g, t>> \in DOMAIN c THEN c
    ELSE [k \in DOMAIN c \cup {<<g, t>>} |->
             IF k \in DOMAIN c THEN c[k] ELSE get_pattern(g, t)]

\* the cache after the call and the value the call returns
get_pattern_cached(c, g, t) ==
    LET filled == CacheFill(c, g, t)
    IN  [cache |-> filled, value |-> filled[<<g, t>>]]

-----------------------------------------------------------------------------
(* calculate_entropy *)

\* The loop over state['possible'] from index i on: acc.counts is
\* pattern_counts (a pattern that is no key counts 0), acc.cache the cache.
RECURSIVE CountPatterns(_, _, _, _)
CountPatterns(word, possible, i, acc) ==
    IF i > Len(possible) THEN acc
    ELSE LET r == get_pattern_cached(acc.cache, word, possible[i])
             old == IF r.value \in DOMAIN acc.counts
                    THEN acc.counts[r.value] ELSE 0
         IN  CountPatterns(word, possible, i + 1,
                 [cache  |-> r.cache,
                  counts |-> [p \in DOMAIN acc.counts \cup {r.value} |->
                                 IF p = r.value THEN old + 1
                                 ELSE acc.counts[p]]])

RECURSIVE Power(_, _)
Power(b, e) == IF e = 0 THEN 1 ELSE b * Power(b, e - 1)

\* product of count^count over the pattern buckets
RECURSIVE SelfPowerProduct(_)
SelfPowerProduct(counts) ==
    IF DOMAIN counts = {} THEN 1
    ELSE LET p == CHOOSE q \in DOMAIN counts : TRUE
             rest == [q \in DOMAIN counts \ {p} |-> counts[q]]
         IN  Power(counts[p], counts[p]) * SelfPowerProduct(rest)

\* The score of a guess.  With total = len(possible) the code returns
\*   sum(-(count/total) * log2(count/total))
\*     = log2(total) - log2(product of count^count) / total,
\* which, for one total, is strictly decreasing in the product of
\* count^count.  Every score of one get_best_guess call is taken over the
\* same total, so the model returns the negated product: an integer that
\* orders the guesses of one call as their entropies do, without rounding.
\* (An empty state['possible'] gives an empty sum, 0, for every word; here
\* the empty product, -1, for every word.)
EntropyOf(counts) == 0 - SelfPowerProduct(counts)

calculate_entropy(c, word, possible) ==
    LET r == CountPatterns(word, possible, 1, [cache |-> c, counts |-> <<>>])
    IN  [cache |-> r.cache, entropy |-> EntropyOf(r.counts)]

-----------------------------------------------------------------------------
(* get_best_guess *)

\* best_score = -float('inf')
NegInf == [finite |-> FALSE, value |-> 0]
Finite(x) == [finite |-> TRUE, value |-> x]

\* if score >= best_score: a tie replaces the best word
BetterOrEqual(score, best_score) == ~best_score.finite \/ score >= best_score.value

\* if score > best_score
Better(score, best_score) == ~best_score.finite \/ score > best_score.value

\* candidates = self.allowed[:2315]
Candidates(words) ==
    SubSeq(words, 1, IF Len(words) < PoolSize THEN Len(words) ELSE PoolSize)

\* The loop over candidates from index i on.
RECURSIVE BestLoop(_, _, _, _)
BestLoop(candidates, possible, i, acc) ==
    IF i > Len(candidates) THEN acc
    ELSE LET r == calculate_entropy(acc.cache, candidates[i], possible)
         IN  IF Better(r.entropy, acc.best_score)
             THEN BestLoop(candidates, possible, i + 1,
                      [cache |-> r.cache, best_word |-> candidates[i],
                       best_score |-> Finite(r.entropy)])
             ELSE BestLoop(candidates, possible, i + 1,
                      [acc EXCEPT !.cache = r.cache])

\* the best word (None for an empty pool) and the cache after the call
get_best_guess(c, words, possible) ==
    BestLoop(Candidates(words), possible, 1,
             [cache |-> c, best_word |-> None, best_score |-> NegInf])

-----------------------------------------------------------------------------
(* update_state, clean_constraints, is_word_valid *)

\* get_feedback_input: list(zip(guess, fb))
Zip(g, fb) == [i \in 1..WordLen |-> <<g[i], fb[i]>>]

\* The loop over the feedback from position i on.
RECURSIVE ProcessFeedback(_, _, _)
ProcessFeedback(st, feedback, i) ==
    IF i > Len(feedback) THEN st
    ELSE LET letter == feedback[i][1]
             color  == feedback[i][2]
         IN  IF color = "C"
             THEN ProcessFeedback(
                      [st EXCEPT !.correct[i] = letter,
                                 !.present = @ \ {letter}],
                      feedback, i + 1)
             ELSE IF color = "P"
             THEN ProcessFeedback([st EXCEPT !.present = @ \cup {letter}],
                                  feedback, i + 1)
             ELSE IF color = "A"
             THEN ProcessFeedback([st EXCEPT !.absent = @ \cup {letter}],
                                  feedback, i + 1)
             ELSE ProcessFeedback(st, feedback, i + 1)

\* clean_constraints without its first line: present keeps the letters of correct
clean_constraints_keep_present(st) ==
    [st EXCEPT !.absent = {a \in st.absent :
                              a \notin Range(st.correct) /\ a \notin st.present}]

\* clean_constraints in which absence wins over presence
clean_constraints_absent_wins(st) ==
    [st EXCEPT !.present = {p \in st.present :
                               p \notin Range(st.correct) /\ p \notin st.absent},
               !.absent = {a \in st.absent : a \notin Range(st.correct)}]

clean_constraints(st) ==
    LET present == {p \in st.present : p \notin Range(st.correct)}
    IN  [st EXCEPT !.present = present,
                   !.absent = {a \in st.absent :
                                  a \notin Range(st.correct) /\ a \notin present}]

is_word_valid(word, st) ==
    \* verify correct positions
    /\ \A i \in 1..WordLen :
           ~(st.correct[i] # Unknown /\ word[i] # st.correct[i])
    \* check required present letters
    /\ ~(\E p \in st.present : p \notin Range(word))
    \* check excluded letters
    /\ ~(\E a \in st.absent :
             /\ a \notin Range(st.correct)
             /\ a \notin st.present
             /\ a \in Range(word))
    \* prevent present letters in known incorrect positions
    /\ \A i \in 1..WordLen :
           ~(word[i] \in st.present /\ word[i] = st.correct[i])

\* update_state refiltering self.answers instead of state['possible']
update_state_from_answers(st, words, g, feedback) ==
    LET cleaned == clean_constraints(ProcessFeedback(st, feedback, 1))
        valid(word) == is_word_valid(word, cleaned)
    IN  [cleaned EXCEPT !.possible = SelectSeq(words, valid)]

\* words is self.answers, which update_state does not read
update_state(st, words, g, feedback) ==
    LET cleaned == clean_constraints(ProcessFeedback(st, feedback, 1))
        valid(word) == is_word_valid(word, cleaned)
    IN  [cleaned EXCEPT !.possible = SelectSeq(st.possible, valid)]

-----------------------------------------------------------------------------
(* The inputs: word files and feedback *)

\* the sub-lists of list s, each in the order of s
RECURSIVE SubLists(_)
SubLists(s) ==
    IF s = <<>> THEN {<<>>}
    ELSE LET rest == SubLists(Tail(s))
         IN  rest \cup {<<Head(s)>> \o r : r \in rest}

Reverse(s) == [i \in 1..Len(s) |-> s[Len(s) + 1 - i]]

FileWords == SubSeq(WordList, 1, NumWords)

\* load_valid_words returns the 5-letter words of a file, and raises on none
AnswerFiles == SubLists(FileWords) \ {<<>>}
GuessFiles == {FileWords, Reverse(FileWords)}

\* feedback a player may type that no secret word produces
MistypedFeedback ==
    {<<"C", "C", "C", "C", "C">>, <<"P", "P", "P", "P", "P">>,
     <<"C", "P", "A", "A", "A">>, <<"P", "C", "A", "P", "C">>}

\* get_feedback_input returns only a string of 5 symbols of C/P/A; the model
\* draws it from the truthful feedback for every word of WordList and from
\* MistypedFeedback
FeedbackInputs(g) ==
    {get_pattern(g, s) : s \in Range(WordList)} \cup MistypedFeedback

\* __init__: self.state
InitialState(words) ==
    [possible |-> words,
     correct  |-> [i \in 1..WordLen |-> Unknown],
     present  |-> {},
     absent   |-> {}]

-----------------------------------------------------------------------------
(* PatternSpec: get_pattern applied to every pair of PatternWords *)

PatternInit ==
    /\ guess \in PatternWords
    /\ target \in PatternWords
    /\ pattern = <<>>
    /\ answers = <<>>
    /\ allowed = <<>>
    /\ state = InitialState(<<>>)
    /\ best_guess = None
    /\ pattern_cache = <<>>
    /\ pc = "pattern"
    /\ attempt = 0
    /\ guesses = 0
    /\ updates = 0
    /\ consistent = {}
    /\ last = <<>>
    /\ calls = <<>>

GetPattern ==
    /\ pc = "pattern"
    /\ pattern = <<>>
    /\ pattern' = get_pattern(guess, target)
    /\ UNCHANGED <<guess, target, answers, allowed, state, best_guess,
                   pattern_cache, pc, attempt, guesses, updates, consistent,
                   last, calls>>

PatternNext == GetPattern

PatternSpec == PatternInit /\ [][PatternNext]_vars

-----------------------------------------------------------------------------
(* The two calls a caller of the solver makes *)

\* best_guess = solver.get_best_guess()
GetBestGuess ==
    LET r == get_best_guess(pattern_cache, allowed, state.possible)
    IN  /\ best_guess' = r.best_word
        /\ pattern_cache' = r.cache
        /\ guesses' = guesses + 1

\* solver.update_state(g, list(zip(g, fb)))
UpdateState(g, fb) ==
    /\ state' = update_state(state, answers, g, Zip(g, fb))
    /\ last' = Zip(g, fb)
    /\ consistent' = {s \in consistent : get_pattern(g, s) = fb}
    /\ updates' = updates + 1

-----------------------------------------------------------------------------
(* SolverSpec: a solver object, built without a guess file, whose caller   *)
(* calls update_state with any guess and feedback                          *)

SolverInit ==
    /\ answers \in AnswerFiles
    /\ allowed = answers
    /\ state = InitialState(answers)
    /\ best_guess = None
    /\ pattern_cache = <<>>
    /\ pc = "solver"
    /\ attempt = 0
    /\ guesses = 0
    /\ updates = 0
    /\ consistent = Range(answers)
    /\ last = <<>>
    /\ guess = <<>>
    /\ target = <<>>
    /\ pattern = <<>>
    /\ calls = <<>>

SolverUpdate ==
    /\ pc = "solver"
    /\ updates < MaxUpdates
    /\ \E g \in Range(FileWords) : \E fb \in FeedbackInputs(g) :
           UpdateState(g, fb)
    /\ UNCHANGED <<guess, target, pattern, answers, allowed, best_guess,
                   pattern_cache, pc, attempt, guesses, calls>>

SolverNext == SolverUpdate

SolverSpec == SolverInit /\ [][SolverNext]_vars

-----------------------------------------------------------------------------
(* MainSpec: main, the turn loop *)

MainInit ==
    /\ answers \in AnswerFiles
    /\ allowed \in GuessFiles
    /\ state = InitialState(answers)
    /\ best_guess = None
    /\ pattern_cache = <<>>
    /\ pc = "guess"
    /\ attempt = 0
    /\ guesses = 0
    /\ updates = 0
    /\ consistent = Range(answers)
    /\ last = <<>>
    /\ guess = <<>>
    /\ target = <<>>
    /\ pattern = <<>>
    /\ calls = <<>>

\* Top of the loop body: best_guess = solver.get_best_guess(), and the
\* break on "not best_guess".
MainGuess ==
    /\ pc = "guess"
    /\ GetBestGuess
    /\ pc' = IF best_guess' = None THEN "done" ELSE "feedback"
    /\ UNCHANGED <<guess, target, pattern, answers, allowed, state, attempt,
                   updates, consistent, last, calls>>

\* Rest of the loop body: feedback = get_feedback_input(best_guess),
\* solver.update_state(best_guess, feedback), the break on one remaining
\* word, and the step of "for attempt in range(5)".
MainFeedback ==
    /\ pc = "feedback"
    /\ \E fb \in FeedbackInputs(best_guess) : UpdateState(best_guess, fb)
    /\ IF Len(state'.possible) = 1
       THEN pc' = "done" /\ attempt' = attempt
       ELSE /\ attempt' = attempt + 1
            /\ pc' = IF attempt + 1 < MaxAttempts THEN "guess" ELSE "done"
    /\ UNCHANGED <<guess, target, pattern, answers, allowed, best_guess,
                   pattern_cache, guesses, calls>>

MainNext == MainGuess \/ MainFeedback

MainSpec == MainInit /\ [][MainNext]_vars

-----------------------------------------------------------------------------
(* CacheSpec: NumCallers callers inside get_pattern_cached at once, each  *)
(* step of a call atomic, the steps of the callers interleaved             *)

Callers == 1..NumCallers

\* the words the callers ask about
CacheWords == {EERIE, CRANE}

Idle == [pc |-> "idle", key |-> <<>>, value |-> <<>>, result |-> <<>>]

CacheInit ==
    /\ calls = [p \in Callers |-> Idle]
    /\ pattern_cache = <<>>
    /\ pc = "cache"
    /\ guess = <<>>
    /\ target = <<>>
    /\ pattern = <<>>
    /\ answers = <<>>
    /\ allowed = <<>>
    /\ state = InitialState(<<>>)
    /\ best_guess = None
    /\ attempt = 0
    /\ guesses = 0
    /\ updates = 0
    /\ consistent = {}
    /\ last = <<>>

CacheUnchanged ==
    UNCHANGED <<guess, target, pattern, answers, allowed, state, best_guess,
                pc, attempt, guesses, updates, consistent, last>>

\* key = (guess, target)
Call(p) ==
    /\ calls[p].pc \in {"idle", "returned"}
    /\ \E g \in CacheWords : \E t \in CacheWords :
           calls' = [calls EXCEPT ![p] =
                        [pc |-> "check", key |-> <<g, t>>,
                         value |-> <<>>, result |-> <<>>]]
    /\ UNCHANGED pattern_cache
    /\ CacheUnchanged

\* if key not in WordleSolver._pattern_cache
Check(p) ==
    /\ calls[p].pc = "check"
    /\ calls' = [calls EXCEPT ![p].pc =
                    IF calls[p].key \in DOMAIN pattern_cache
                    THEN "return" ELSE "compute"]
    /\ UNCHANGED pattern_cache
    /\ CacheUnchanged

\* the right-hand side: WordleSolver.get_pattern(guess, target)
Compute(p) ==
    /\ calls[p].pc = "compute"
    /\ calls' = [calls EXCEPT ![p].pc = "store",
                              ![p].value = get_pattern(calls[p].key[1],
                                                       calls[p].key[2])]
    /\ UNCHANGED pattern_cache
    /\ CacheUnchanged

\* the store under the key with guess and target swapped
StoreSwapped(p) ==
    /\ calls[p].pc = "store"
    /\ pattern_cache' =
           [k \in DOMAIN pattern_cache
                     \cup {<<calls[p].key[2], calls[p].key[1]>>} |->
               IF k = <<calls[p].key[2], calls[p].key[1]>>
               THEN calls[p].value ELSE pattern_cache[k]]
    /\ calls' = [calls EXCEPT ![p].pc =
                    IF calls[p].key \in DOMAIN pattern_cache'
                    THEN "return" ELSE "check"]
    /\ CacheUnchanged

\* the store: WordleSolver._pattern_cache[key] = ...
Store(p) ==
    /\ calls[p].pc = "store"
    /\ pattern_cache' =
           [k \in DOMAIN pattern_cache \cup {calls[p].key} |->
               IF k = calls[p].key THEN calls[p].value ELSE pattern_cache[k]]
    /\ calls' = [calls EXCEPT ![p].pc = "return"]
    /\ CacheUnchanged

\* return WordleSolver._pattern_cache[key]
Return(p) ==
    /\ calls[p].pc = "return"
    /\ calls' = [calls EXCEPT ![p].pc = "returned",
                              ![p].result = pattern_cache[calls[p].key]]
    /\ UNCHANGED pattern_cache
    /\ CacheUnchanged

CacheNext ==
    \E p \in Callers :
        Call(p) \/ Check(p) \/ Compute(p) \/ Store(p) \/ Return(p)

CacheSpec == CacheInit /\ [][CacheNext]_vars

-----------------------------------------------------------------------------
(* Properties of get_pattern, under PatternSpec *)

Computed == pc = "pattern" /\ pattern # <<>>

\* the positions of the guess that hold letter l and are not marked "A"
NonAbsent(l) == {i \in 1..WordLen : guess[i] = l /\ pattern[i] \in {"C", "P"}}

\* C2: get_pattern(g, t) is a tuple of 5 symbols that marks position i "C"
\* exactly when g[i] = t[i], and for every letter L the positions of g that
\* hold L and are marked "C" or "P" are at most as many as the occurrences
\* of L in t.
C2_PatternBudget ==
    Computed =>
        /\ pattern \in [1..WordLen -> Symbols]
        /\ \A i \in 1..WordLen : (pattern[i] = "C") <=> (guess[i] = target[i])
        /\ \A l \in Range(guess) :
               Cardinality(NonAbsent(l)) <= Occurrences(target, l)

\* a letter the guess holds more often than the target does, marked "C" at
\* one position, "P" at another and "A" at a third
C2_Witness ==
    /\ Computed
    /\ \E l \in Range(guess) :
           /\ Occurrences(guess, l) > Occurrences(target, l)
           /\ \E i, j, k \in 1..WordLen :
                  /\ guess[i] = l /\ pattern[i] = "C"
                  /\ guess[j] = l /\ pattern[j] = "P"
                  /\ guess[k] = l /\ pattern[k] = "A"

\* C3, as the code computes it: get_pattern("CRANE", "SLATE") is
\* (Absent, Absent, Correct, Absent, Correct): A and E stand at the
\* positions they have in SLATE, and C, R, N do not occur in SLATE.
C3_CraneSlate ==
    (Computed /\ guess = CRANE /\ target = SLATE)
        => pattern = <<"A", "A", "C", "A", "C">>

C3_Witness == Computed /\ guess = CRANE /\ target = SLATE

\* C3, as claimed: get_pattern("CRANE", "SLATE") is
\* (Absent, Present, Absent, Correct, Present).
C3_AsClaimed ==
    (Computed /\ guess = CRANE /\ target = SLATE)
        => pattern = <<"A", "P", "A", "C", "P">>

-----------------------------------------------------------------------------
(* Properties of update_state, under SolverSpec *)

\* a is b with some elements left out, the rest in the order of b
RECURSIVE IsSubList(_, _)
IsSubList(a, b) ==
    IF a = <<>> THEN TRUE
    ELSE IF b = <<>> THEN FALSE
    ELSE IF Head(a) = Head(b) THEN IsSubList(Tail(a), Tail(b))
    ELSE IsSubList(a, Tail(b))

\* the last guess holds one letter at two positions
RepeatedLetterGuess ==
    \E i, j \in DOMAIN last : i < j /\ last[i][1] = last[j][1]

\* C1: a word of the answers for which every feedback given so far equals
\* get_pattern(guess, word) is in state['possible'] after every update_state.
C1_FilteringSound == consistent \subseteq Range(state.possible)

\* two updates, the last with a repeated-letter guess, that removed words
\* and kept a word all the feedback was truthful for
C1_Witness ==
    /\ pc = "solver"
    /\ updates >= 2
    /\ RepeatedLetterGuess
    /\ consistent # {}
    /\ Len(state.possible) < Len(answers)

\* C6: after every update_state no letter of present occurs in correct, and
\* no letter of absent occurs in correct or in present.
C6_ConstraintsDisjoint ==
    (pc = "solver" /\ updates > 0) =>
        /\ state.present \cap Range(state.correct) = {}
        /\ state.absent \cap (Range(state.correct) \cup state.present) = {}

\* an update whose feedback marks one letter "A" at one position and "C" or
\* "P" at another, with all three constraint kinds non-empty afterwards
C6_Witness ==
    /\ pc = "solver"
    /\ updates > 0
    /\ \E i, j \in DOMAIN last :
           /\ last[i][1] = last[j][1]
           /\ last[i][2] = "A"
           /\ last[j][2] \in {"C", "P"}
    /\ state.present # {}
    /\ state.absent # {}
    /\ Range(state.correct) # {Unknown}

\* C7: state['possible'] after an update_state call is a sub-list of
\* state['possible'] before the call.
C7_PossibleShrinks == [][IsSubList(state'.possible, state.possible)]_vars

\* a second update that left some words and removed others
C7_Witness ==
    /\ pc = "solver"
    /\ updates >= 2
    /\ state.possible # <<>>
    /\ Len(state.possible) < Len(answers)

\* C8, as claimed: after update_state processed a feedback that marks
\* letter L "P" at position i, no word of state['possible'] has L at
\* position i.  (state['possible'] only loses words, so this statement about
\* the last feedback is the claim's statement about all the earlier ones.)
C8_AsClaimed ==
    (pc = "solver" /\ updates > 0) =>
        \A i \in DOMAIN last :
            last[i][2] = "P" =>
                \A k \in DOMAIN state.possible :
                    state.possible[k][i] # last[i][1]

-----------------------------------------------------------------------------
(* Properties of get_best_guess and main, under MainSpec *)

\* the score of word w over state['possible'], from the pattern buckets
BucketCounts(w) ==
    LET seen == {get_pattern(w, state.possible[k]) : k \in DOMAIN state.possible}
    IN  [p \in seen |->
            Cardinality({k \in DOMAIN state.possible :
                            get_pattern(w, state.possible[k]) = p})]

Score(w) == EntropyOf(BucketCounts(w))

Pool == Candidates(allowed)

\* C4: with a non-empty pool and a non-empty state['possible'],
\* get_best_guess returns the earliest word of the pool whose score is the
\* greatest of the pool.
C4_EarliestBest ==
    (pc = "feedback" /\ Pool # <<>> /\ state.possible # <<>>) =>
        \E i \in DOMAIN Pool :
            /\ best_guess = Pool[i]
            /\ \A j \in DOMAIN Pool : Score(Pool[j]) <= Score(Pool[i])
            /\ \A j \in DOMAIN Pool : j < i => Score(Pool[j]) < Score(Pool[i])

\* the returned word is not the first of the pool, and a later word has the
\* same score
C4_Witness ==
    /\ pc = "feedback"
    /\ state.possible # <<>>
    /\ \E i, j \in DOMAIN Pool :
           /\ 1 < i /\ i < j
           /\ best_guess = Pool[i]
           /\ Score(Pool[j]) = Score(Pool[i])
           /\ Score(Pool[1]) < Score(Pool[i])

\* C5, as claimed: no guess is recommended from an empty state['possible'];
\* main is never waiting for the feedback of a guess it made out of no
\* candidate.
C5_AsClaimed == ~(pc = "feedback" /\ state.possible = <<>>)

\* C9, as claimed: get_best_guess and update_state alternate, at most 5
\* guesses are issued, and no guess is issued while state['possible'] holds
\* exactly one word.  (That main ends is not part of this state predicate:
\* every step of MainSpec raises guesses + updates, bounded by 10.)
C9_AsClaimed ==
    pc \in {"guess", "feedback", "done"} =>
        /\ guesses <= MaxAttempts
        /\ guesses - updates = (IF pc = "feedback" THEN 1 ELSE 0)
        /\ pc = "feedback" => Len(state.possible) # 1

-----------------------------------------------------------------------------
(* Properties of get_pattern_cached, under CacheSpec *)

\* every entry is the pattern of its key
EntriesRight ==
    \A k \in DOMAIN pattern_cache : pattern_cache[k] = get_pattern(k[1], k[2])

\* every finished call returned the pattern of its key
ResultsRight ==
    \A p \in DOMAIN calls :
        calls[p].pc = "returned" =>
            calls[p].result = get_pattern(calls[p].key[1], calls[p].key[2])

\* an entry keeps its value
EntriesKept ==
    \A k \in DOMAIN pattern_cache :
        k \in DOMAIN pattern_cache' /\ pattern_cache'[k] = pattern_cache[k]

\* C10: under every interleaving of the callers' steps, every entry of
\* _pattern_cache is get_pattern of its key, an entry once written keeps its
\* value, and every call returns get_pattern of its key.
C10_CacheCoherent ==
    /\ [](pc = "cache" => (EntriesRight /\ ResultsRight))
    /\ [][pc = "cache" => EntriesKept]_vars

\* one caller stored and returned a key that another caller, who had found
\* it missing, is about to store again
C10_Witness ==
    /\ pc = "cache"
    /\ \E p, q \in DOMAIN calls :
           /\ p # q
           /\ calls[p].pc = "store"
           /\ calls[q].pc = "returned"
           /\ calls[p].key = calls[q].key
           /\ calls[p].key \in DOMAIN pattern_cache

=============================================================================
